---- MODULE Spec2Model ----
(***************************************************************************)
(* A model of the flexstr value type: the tagged union FlexStr (a wrapped  *)
(* literal, an inline buffer, a heap handle or a borrowed reference), its  *)
(* smart constructors, its view, and concatenation through the builder.    *)
(* A string is a sequence of bytes; a reference is modelled by the data it *)
(* refers to.                                                              *)
(***************************************************************************)
EXTENDS Integers, Sequences, FiniteSets, TLC

VARIABLES
    cap,      \* inline capacity of the alias (STRING_SIZED_INLINE), fixed per alias
    kind,     \* the wrapped string kind of the alias: Str, RawStr, BStr, OsStr
    unix,     \* whether the build target is cfg(unix)
    backend,  \* the storage backend of the alias: Rc, Arc, Box
    op,       \* the operation that ran last
    arg,      \* its input string
    lhs,      \* its left operand (the value consumed by + or read by clone)
    val,      \* the value it produced, or NoValue
    err,      \* what a failed try_inline handed back
    failed,   \* whether the last operation returned Err
    allocs,   \* heap allocations the last operation made
    copied,   \* bytes the last operation copied into inline or heap storage
    other,    \* a second value (FlexStr<T2>) that val is compared with
    items,    \* the items of the iterator or format arguments being collected
    out,      \* what a read-only operation or a conversion returned
    heap_words, \* size of the alias's HEAP type, in machine words
    builder   \* the FlexStrBuilder being written to, or NoBuilder

vars == <<cap, kind, unix, backend, op, arg, lhs, val, err, failed, allocs, copied,
          other, items, out, heap_words, builder>>

\* What the constructors and + never touch.
aux == <<other, items, out, heap_words, builder>>

config == <<cap, kind, unix, backend>>

\* Largest inline capacity of an alias, and longest input string.
MaxCap == 3
MaxLen == 4

Capacities == 1..MaxCap
Bytes == {1, 2}
StrKinds == {"Str", "RawStr", "BStr", "OsStr"}
Backends == {"Rc", "Arc", "Box"}

Strs(n) == UNION {[1..k -> Bytes] : k \in 0..n}
Inputs == Strs(MaxLen)

Zeros(n) == [i \in 1..n |-> 0]

(***************************************************************************)
(* The representation.                                                     *)
(***************************************************************************)
NoHeap == [backend |-> "none", bytes |-> <<>>]
NoInline == [data |-> <<>>, len |-> 0]

NoValue == [tag |-> "None", ref |-> <<>>, inl |-> NoInline, heap |-> NoHeap]

\* FlexStrInner::Static(&'static str)
Static(s) == [tag |-> "Static", ref |-> s, inl |-> NoInline, heap |-> NoHeap]

\* FlexStrInner::Inlined(InlineFlexStr)
Inlined(i) == [tag |-> "Inlined", ref |-> <<>>, inl |-> i, heap |-> NoHeap]

\* FlexStrInner::Heap(T)
Heap(h) == [tag |-> "Heap", ref |-> <<>>, inl |-> NoInline, heap |-> h]

\* The borrowed variant of the lifetime-parameterized aliases.
Borrowed(s) == [tag |-> "Borrowed", ref |-> s, inl |-> NoInline, heap |-> NoHeap]

(***************************************************************************)
(* The inline buffer: a fixed array of cap bytes and a one-byte length.    *)
(***************************************************************************)
\* InlineFlexStr::try_new: Ok(buffer) when s fits, Err(s) otherwise.
try_new(s) ==
    IF Len(s) <= cap
    THEN [ok |-> TRUE,
          inl |-> [data |-> [k \in 1..cap |-> IF k <= Len(s) THEN s[k] ELSE 0],
                   len |-> Len(s)],
          err |-> <<>>]
    ELSE [ok |-> FALSE, inl |-> NoInline, err |-> s]

\* InlineFlexStr::try_concat: appends in place when the sum fits.
try_concat(i, s) ==
    IF i.len + Len(s) <= cap
    THEN [ok |-> TRUE,
          inl |-> [data |-> [k \in 1..cap |->
                                IF k > i.len /\ k <= i.len + Len(s)
                                THEN s[k - i.len] ELSE i.data[k]],
                   len |-> i.len + Len(s)]]
    ELSE [ok |-> FALSE, inl |-> i]

\* InlineFlexStr::from_array: a buffer from an array and a u8 length.
from_array(data, len) == [data |-> data, len |-> len]

\* InlineFlexStr as a slice: the bytes [0, len).
as_slice(i) == SubSeq(i.data, 1, i.len)

(***************************************************************************)
(* The semantic string adapters: Str::empty of each kind.                  *)
(***************************************************************************)
None == [some |-> FALSE, ref |-> <<>>]
Some(s) == [some |-> TRUE, ref |-> s]

\* Str::length
length(s) == Len(s)

\* <[u8] as Str>::empty
empty_raw_str(s) == IF length(s) = 0 THEN Some(<<>>) ELSE None

\* <BStr as Str>::empty
empty_b_str(s) == IF length(s) = 0 THEN Some(<<>>) ELSE None

\* <OsStr as Str>::empty, cfg(unix) and cfg(not(unix))
empty_os_str(s) ==
    IF unix
    THEN (IF length(s) = 0 THEN Some(<<>>) ELSE None)
    ELSE None

\* <str as Str>::empty
empty_std_str(s) == IF length(s) = 0 THEN Some(<<>>) ELSE None

\* Str::empty, dispatched on the kind of the alias
empty(s) ==
    CASE kind = "RawStr" -> empty_raw_str(s)
      [] kind = "BStr" -> empty_b_str(s)
      [] kind = "OsStr" -> empty_os_str(s)
      [] OTHER -> empty_std_str(s)

(***************************************************************************)
(* Constructors, predicates and the view.                                  *)
(***************************************************************************)
\* from_static that copies a short literal into an inline buffer
from_static_inlining(s) ==
    LET r == try_new(s)
    IN  IF r.ok THEN Inlined(r.inl) ELSE Static(s)

\* FlexStr::from_static
from_static(s) == Static(s)

\* try_inline that wraps a fresh, empty buffer instead of the filled one
try_inline_empty_buffer(s) ==
    LET r == try_new(s)
    IN  IF r.ok
        THEN [ok |-> TRUE, val |-> Inlined(try_new(<<>>).inl), err |-> <<>>]
        ELSE [ok |-> FALSE, val |-> NoValue, err |-> r.err]

\* try_inline that falls back to the heap instead of handing the input back
try_inline_heap_fallback(s) ==
    LET r == try_new(s)
    IN  IF r.ok
        THEN [ok |-> TRUE, val |-> Inlined(r.inl), err |-> <<>>]
        ELSE [ok |-> TRUE,
              val |-> Heap([backend |-> backend, bytes |-> r.err]),
              err |-> <<>>]

\* FlexStr::try_inline: Result<FlexStr, &str>
try_inline(s) ==
    LET r == try_new(s)
    IN  IF r.ok
        THEN [ok |-> TRUE, val |-> Inlined(r.inl), err |-> <<>>]
        ELSE [ok |-> FALSE, val |-> NoValue, err |-> r.err]

\* heap that tries the inline buffer first, as from_ref does
heap_inlining(s) ==
    LET r == try_new(s)
    IN  IF r.ok THEN Inlined(r.inl) ELSE Heap([backend |-> backend, bytes |-> s])

\* FlexStr::heap (from_ref_heap): T::from(&str) allocates and copies s
heap(s) == Heap([backend |-> backend, bytes |-> s])

\* from_borrow: wraps the reference
from_borrow(s) == Borrowed(s)

\* from_ref: empty singleton, else inline, else heap
from_ref(s) ==
    LET e == empty(s)
    IN  IF e.some
        THEN from_static(e.ref)
        ELSE LET r == try_inline(s)
             IN  IF r.ok THEN r.val ELSE heap(r.err)

\* FlexStr::is_static
is_static(v) == v.tag = "Static"

\* FlexStr::is_inlined
is_inlined(v) == v.tag = "Inlined"

\* is_heap that only rules out the literal variant
is_heap_not_static(v) == v.tag # "Static"

\* FlexStr::is_heap
is_heap(v) == v.tag = "Heap"

\* is_borrow of the lifetime-parameterized aliases
is_borrow(v) == v.tag = "Borrowed"

\* deref whose inline arm returns the whole array, padding included
deref_whole_array(v) ==
    CASE v.tag = "Static" -> v.ref
      [] v.tag = "Inlined" -> v.inl.data
      [] v.tag = "Heap" -> v.heap.bytes

\* <FlexStr as Deref>::deref
deref(v) ==
    CASE v.tag = "Static" -> v.ref
      [] v.tag = "Inlined" -> as_slice(v.inl)
      [] v.tag = "Heap" -> v.heap.bytes

\* as_str_type: the view of all four variants
as_str_type(v) == IF v.tag = "Borrowed" THEN v.ref ELSE deref(v)

\* clone that rebuilds the value from its view instead of copying the variant
clone_reconstructing(v) == from_ref(as_str_type(v))

\* <FlexStr as Clone>::clone (derived): the same variant with the same payload
clone(v) ==
    CASE v.tag = "Static" -> Static(v.ref)
      [] v.tag = "Inlined" -> Inlined(v.inl)
      [] v.tag = "Heap" -> Heap(v.heap)
      [] v.tag = "Borrowed" -> Borrowed(v.ref)

\* From<String> that goes through the borrowed-string path (empty is Static)
from_string_via_ref(s) == from_ref(s)

\* <FlexStr as From<String>>::from
from_string(s) ==
    LET r == try_new(s)
    IN  IF r.ok THEN Inlined(r.inl) ELSE Heap([backend |-> backend, bytes |-> r.err])

\* ToFlex::to_flex of a string slice
to_flex(s) ==
    IF Len(s) = 0 THEN from_static(<<>>)
    ELSE LET r == try_inline(s)
         IN  IF r.ok THEN r.val ELSE heap(r.err)

(***************************************************************************)
(* The builder: Small (an inline-sized buffer), Regular (a grown buffer),  *)
(* Large (an owned string).  allocs and copied count the heap buffers it   *)
(* allocated and the bytes it copied.                                      *)
(***************************************************************************)
\* FlexStrBuilder::new
builder_new == [state |-> "Small", data |-> Zeros(cap), len |-> 0, str |-> <<>>,
                allocs |-> 0, copied |-> 0]

\* FlexStrBuilder::with_capacity
with_capacity(n) ==
    IF n <= cap
    THEN builder_new
    ELSE [state |-> "Regular", data |-> <<>>, len |-> 0, str |-> <<>>,
          allocs |-> 1, copied |-> 0]

\* write_str that leaves the Small buffer as soon as it would be full
write_str_eager(b, s) ==
    IF b.state = "Small"
    THEN LET r == try_concat(from_array(b.data, b.len), s)
         IN  IF r.ok /\ r.inl.len < cap
             THEN [b EXCEPT !.data = r.inl.data, !.len = r.inl.len,
                            !.copied = @ + Len(s)]
             ELSE [state |-> "Regular", data |-> <<>>, len |-> 0,
                   str |-> SubSeq(b.data, 1, b.len) \o s,
                   allocs |-> b.allocs + 1,
                   copied |-> b.copied + b.len + Len(s)]
    ELSE [b EXCEPT !.str = @ \o s, !.copied = @ + Len(s)]

\* write_str whose Small buffer gives up its last byte to the length
write_str_len_in_last_byte(b, s) ==
    IF b.state = "Small"
    THEN LET r == try_concat(from_array(b.data, b.len), s)
         IN  IF r.ok /\ r.inl.len <= cap - 1
             THEN [b EXCEPT !.data = r.inl.data, !.len = r.inl.len,
                            !.copied = @ + Len(s)]
             ELSE [state |-> "Regular", data |-> <<>>, len |-> 0,
                   str |-> SubSeq(b.data, 1, b.len) \o s,
                   allocs |-> b.allocs + 1,
                   copied |-> b.copied + b.len + Len(s)]
    ELSE [b EXCEPT !.str = @ \o s, !.copied = @ + Len(s)]

\* <FlexStrBuilder as Write>::write_str
write_str(b, s) ==
    IF b.state = "Small"
    THEN LET r == try_concat(from_array(b.data, b.len), s)
         IN  IF r.ok
             THEN [b EXCEPT !.data = r.inl.data, !.len = r.inl.len,
                            !.copied = @ + Len(s)]
             ELSE [state |-> "Regular", data |-> <<>>, len |-> 0,
                   str |-> SubSeq(b.data, 1, b.len) \o s,
                   allocs |-> b.allocs + 1,
                   copied |-> b.copied + b.len + Len(s)]
    ELSE [b EXCEPT !.str = @ \o s, !.copied = @ + Len(s)]

\* From<FlexStrBuilder> whose Small arm allocates instead of moving the array
builder_into_small_heap(b) ==
    CASE b.state = "Small" ->
            Heap([backend |-> backend, bytes |-> SubSeq(b.data, 1, b.len)])
      [] b.state = "Regular" -> to_flex(b.str)
      [] b.state = "Large" -> from_string(b.str)

\* From<FlexStrBuilder> whose Regular arm keeps only what fits inline
builder_into_regular_truncating(b) ==
    CASE b.state = "Small" -> Inlined(from_array(b.data, b.len % 256))
      [] b.state = "Regular" ->
            to_flex(SubSeq(b.str, 1, IF Len(b.str) <= cap THEN Len(b.str) ELSE cap))
      [] b.state = "Large" -> from_string(b.str)

\* From<FlexStrBuilder> whose Large arm always allocates
builder_into_large_heap(b) ==
    CASE b.state = "Small" -> Inlined(from_array(b.data, b.len % 256))
      [] b.state = "Regular" -> to_flex(b.str)
      [] b.state = "Large" -> heap(b.str)

\* From<FlexStrBuilder> whose Small arm takes the whole array as the length
builder_into_full_len(b) ==
    CASE b.state = "Small" -> Inlined(from_array(b.data, Len(b.data) % 256))
      [] b.state = "Regular" -> to_flex(b.str)
      [] b.state = "Large" -> from_string(b.str)

\* From<FlexStrBuilder> whose Large arm drops the string
builder_into_large_lossy(b) ==
    CASE b.state = "Small" -> Inlined(from_array(b.data, b.len % 256))
      [] b.state = "Regular" -> to_flex(b.str)
      [] b.state = "Large" -> from_string(<<>>)

\* <FlexStr as From<FlexStrBuilder>>::from
builder_into(b) ==
    CASE b.state = "Small" -> Inlined(from_array(b.data, b.len % 256))
      [] b.state = "Regular" -> to_flex(b.str)
      [] b.state = "Large" -> from_string(b.str)

\* What building v afresh from a string costs: heap buffers and bytes copied.
fresh_cost(v) ==
    CASE v.tag = "Heap" -> [allocs |-> 1, copied |-> Len(v.heap.bytes)]
      [] v.tag = "Inlined" -> [allocs |-> 0, copied |-> v.inl.len]
      [] OTHER -> [allocs |-> 0, copied |-> 0]

\* The cost of turning builder b into a value: Small moves its array.
into_cost(b) ==
    IF b.state = "Small"
    THEN [allocs |-> b.allocs, copied |-> b.copied]
    ELSE [allocs |-> b.allocs + fresh_cost(builder_into(b)).allocs,
          copied |-> b.copied + fresh_cost(builder_into(b)).copied]

(***************************************************************************)
(* Concatenation.                                                          *)
(***************************************************************************)
\* concat that writes its operands in the wrong order
concat_builder_swapped(s1, s2) ==
    write_str(write_str(with_capacity(Len(s1) + Len(s2)), s2), s1)

\* concat that starts from FlexStrBuilder::new() instead of sizing the builder
concat_builder_unsized(s1, s2) == write_str(write_str(builder_new, s1), s2)

\* The builder concat fills: with_capacity, then the two writes.
concat_builder(s1, s2) ==
    write_str(write_str(with_capacity(Len(s1) + Len(s2)), s1), s2)

\* concat
concat(s1, s2) == builder_into(concat_builder(s1, s2))

\* add whose literal arm always allocates
add_static_to_heap(self, rhs) ==
    CASE self.tag = "Static" -> heap(self.ref \o rhs)
      [] self.tag = "Inlined" ->
            LET r == try_concat(self.inl, rhs)
            IN  IF r.ok THEN Inlined(r.inl) ELSE concat(as_slice(self.inl), rhs)
      [] self.tag = "Heap" -> concat(self.heap.bytes, rhs)

\* <FlexStr as Add<&str>>::add
add(self, rhs) ==
    CASE self.tag = "Static" -> concat(self.ref, rhs)
      [] self.tag = "Inlined" ->
            LET r == try_concat(self.inl, rhs)
            IN  IF r.ok THEN Inlined(r.inl) ELSE concat(as_slice(self.inl), rhs)
      [] self.tag = "Heap" -> concat(self.heap.bytes, rhs)

\* + with a borrowed left operand: the builder seeded with its content
add_borrowed(self, rhs) == concat(self.ref, rhs)

\* The cost of self + rhs.
add_cost(self, rhs) ==
    IF self.tag = "Inlined" /\ try_concat(self.inl, rhs).ok
    THEN [allocs |-> 0, copied |-> Len(rhs)]
    ELSE into_cost(concat_builder(as_str_type(self), rhs))

\* Nothing returned yet.
\* No builder: the operation has none.
NoBuilder == [state |-> "None", data |-> <<>>, len |-> 0, str |-> <<>>,
              allocs |-> 0, copied |-> 0]

NoOut == [tag |-> "none"]

(***************************************************************************)
(* The state machine: one alias, and the operations run on it.             *)
(***************************************************************************)
Init ==
    /\ cap \in Capacities
    /\ kind \in StrKinds
    /\ unix \in BOOLEAN
    /\ backend \in Backends
    /\ op = "none"
    /\ arg = <<>>
    /\ lhs = NoValue
    /\ val = NoValue
    /\ err = <<>>
    /\ failed = FALSE
    /\ allocs = 0
    /\ copied = 0
    /\ other = NoValue
    /\ items = <<>>
    /\ out = NoOut
    /\ heap_words = 2
    /\ builder = NoBuilder

\* An operation that builds v from the input s and cannot fail.
Built(name, s, v) ==
    /\ op' = name
    /\ arg' = s
    /\ lhs' = NoValue
    /\ val' = v
    /\ err' = <<>>
    /\ failed' = FALSE
    /\ allocs' = fresh_cost(v).allocs
    /\ copied' = fresh_cost(v).copied
    /\ UNCHANGED <<config, aux>>

FromStatic == \E s \in Inputs : Built("from_static", s, from_static(s))

TryInline ==
    \E s \in Inputs :
        LET r == try_inline(s)
        IN  /\ op' = "try_inline"
            /\ arg' = s
            /\ lhs' = NoValue
            /\ val' = r.val
            /\ err' = r.err
            /\ failed' = ~r.ok
            /\ allocs' = fresh_cost(r.val).allocs
            /\ copied' = fresh_cost(r.val).copied
            /\ UNCHANGED <<config, aux>>

FromRef == \E s \in Inputs : Built("from_ref", s, from_ref(s))

FromRefHeap == \E s \in Inputs : Built("from_ref_heap", s, heap(s))

\* from_borrow generated with the body of from_ref
FromBorrow_copying == \E s \in Inputs : Built("from_borrow", s, from_ref(s))

FromBorrow == \E s \in Inputs : Built("from_borrow", s, from_borrow(s))

FromString ==
    /\ kind = "Str"
    /\ \E s \in Inputs : Built("from_string", s, from_string(s))

Add ==
    /\ kind = "Str"
    /\ val # NoValue
    /\ \E s \in Inputs :
        /\ Len(as_str_type(val)) + Len(s) <= MaxLen
        /\ op' = "add"
        /\ arg' = s
        /\ lhs' = val
        /\ val' = IF val.tag = "Borrowed" THEN add_borrowed(val, s) ELSE add(val, s)
        /\ err' = <<>>
        /\ failed' = FALSE
        /\ allocs' = add_cost(val, s).allocs
        /\ copied' = add_cost(val, s).copied
        /\ UNCHANGED <<config, aux>>

Clone ==
    /\ val # NoValue
    /\ op' = "clone"
    /\ arg' = <<>>
    /\ lhs' = val
    /\ val' = clone(val)
    /\ err' = <<>>
    /\ failed' = FALSE
    /\ allocs' = 0
    /\ copied' = 0
    /\ UNCHANGED <<config, aux>>

Next ==
    \/ FromStatic
    \/ TryInline
    \/ FromRef
    \/ FromRefHeap
    \/ FromBorrow
    \/ FromString
    \/ Add
    \/ Clone

Spec == Init /\ [][Next]_vars

(***************************************************************************)
(* Comparison, hashing and the other operations that borrow the value.     *)
(***************************************************************************)
\* Longest string the read-only operations are run on.
MaxReadLen == 2

ReadInputs == Strs(MaxReadLen)

Min(S) == CHOOSE x \in S : \A y \in S : x <= y

\* <str as Ord>::cmp: a bytewise lexicographic comparison
str_cmp(a, b) ==
    LET n == IF Len(a) <= Len(b) THEN Len(a) ELSE Len(b)
        diff == {i \in 1..n : a[i] # b[i]}
    IN  IF diff # {}
        THEN (IF a[Min(diff)] < b[Min(diff)] THEN "Less" ELSE "Greater")
        ELSE IF Len(a) < Len(b) THEN "Less"
        ELSE IF Len(a) > Len(b) THEN "Greater"
        ELSE "Equal"

\* <str as Hash>::hash: what it writes to the hasher, the bytes and then 0xff
str_hash(s) == s \o <<255>>

\* equality as #[derive(PartialEq)] would give it: variant and payload
eq_derived(x, y) == x = y

\* <FlexStr as PartialEq<FlexStr<T2>>>::eq
eq(x, y) == as_str_type(x) = as_str_type(y)

\* <FlexStr as Ord>::cmp, PartialOrd::partial_cmp
cmp(x, y) == str_cmp(as_str_type(x), as_str_type(y))

\* <FlexStr as Hash>::hash
hash(x) == str_hash(as_str_type(x))

\* FlexStr::len
len(x) == Len(as_str_type(x))

\* FlexStr::is_empty
is_empty(x) == Len(as_str_type(x)) = 0

\* FlexStr::as_str
as_str(x) == as_str_type(x)

\* <FlexStr as Index<Range<usize>>>::index and the other ranges
index(x, from, to) == SubSeq(as_str_type(x), from + 1, to)

\* A value of variant c built from s, with backend b for its heap handle.
Make(c, b, s) ==
    CASE c = "Static" -> from_static(s)
      [] c = "Inlined" -> try_inline(s).val
      [] c = "Heap" -> Heap([backend |-> b, bytes |-> s])
      [] c = "Borrowed" -> from_borrow(s)

Variants == {"Static", "Inlined", "Heap", "Borrowed"}

\* What a read-only operation returned.
Ret(name, flag, word, bytes, n) ==
    [tag |-> name, flag |-> flag, word |-> word, bytes |-> bytes, n |-> n]

\* Two values, x in val and y in other, built from the strings in items;
\* y may be of another backend (FlexStr<T2>).
InitRead ==
    /\ cap = MaxCap
    /\ kind = "Str"
    /\ unix = TRUE
    /\ backend \in Backends
    /\ op = "none"
    /\ arg = <<>>
    /\ lhs = NoValue
    /\ err = <<>>
    /\ failed = FALSE
    /\ allocs = 0
    /\ copied = 0
    /\ heap_words = 2
    /\ builder = NoBuilder
    /\ out = Ret("none", FALSE, "", <<>>, 0)
    /\ \E sx \in ReadInputs, sy \in ReadInputs, cx \in Variants, cy \in Variants,
          b2 \in Backends :
        /\ cx = "Inlined" => Len(sx) <= cap
        /\ cy = "Inlined" => Len(sy) <= cap
        /\ cy # "Heap" => b2 = backend
        /\ items = <<sx, sy>>
        /\ val = Make(cx, backend, sx)
        /\ other = Make(cy, b2, sy)

\* A call that borrows val (&self): it returns r and leaves the values alone.
Read(r) ==
    /\ op' = r.tag
    /\ out' = r
    /\ UNCHANGED <<config, arg, lhs, val, err, failed, allocs, copied, other,
                   items, heap_words,
                   builder>>

ReadEq == Read(Ret("eq", eq(val, other), "", <<>>, 0))

\* Ord and PartialOrd take other: &Self, a value of the same backend
ReadCmp ==
    /\ is_heap(other) => other.heap.backend = backend
    /\ Read(Ret("cmp", FALSE, cmp(val, other), <<>>, 0))

ReadHash == Read(Ret("hash", hash(val) = hash(other), "", hash(val), 0))

ReadDeref == Read(Ret("deref", FALSE, "", as_str(val), 0))

ReadLen == Read(Ret("len", FALSE, "", <<>>, len(val)))

ReadIsEmpty == Read(Ret("is_empty", is_empty(val), "", <<>>, 0))

ReadIsStatic == Read(Ret("is_static", is_static(val), "", <<>>, 0))

ReadIsInlined == Read(Ret("is_inlined", is_inlined(val), "", <<>>, 0))

ReadIsHeap == Read(Ret("is_heap", is_heap(val), "", <<>>, 0))

ReadIsBorrow == Read(Ret("is_borrow", is_borrow(val), "", <<>>, 0))

ReadIndex ==
    \E to \in 0..len(val) : \E from \in 0..to :
        Read(Ret("index", FALSE, "", index(val, from, to), to - from))

\* a clone that takes the value instead of borrowing it
ReadClone_moving ==
    /\ op' = "clone"
    /\ lhs' = clone(val)
    /\ val' = NoValue
    /\ out' = Ret("clone", FALSE, "", <<>>, 0)
    /\ UNCHANGED <<config, arg, err, failed, allocs, copied, other, items,
                   heap_words, builder>>

\* x.clone(): the copy goes to lhs
ReadClone ==
    /\ op' = "clone"
    /\ lhs' = clone(val)
    /\ val' = val
    /\ out' = Ret("clone", FALSE, "", <<>>, 0)
    /\ UNCHANGED <<config, arg, err, failed, allocs, copied, other, items,
                   heap_words, builder>>

NextRead ==
    \/ ReadEq
    \/ ReadCmp
    \/ ReadHash
    \/ ReadDeref
    \/ ReadLen
    \/ ReadIsEmpty
    \/ ReadIsStatic
    \/ ReadIsInlined
    \/ ReadIsHeap
    \/ ReadIsBorrow
    \/ ReadIndex
    \/ ReadClone

SpecRead == InitRead /\ [][NextRead]_vars

(***************************************************************************)
(* The footprint of the storage backend, checked when a value is created.  *)
(***************************************************************************)
\* Largest backend handle considered, in machine words.
MaxHeapWords == 3

\* The size a HEAP type must have, in machine words.
ValidHeapWords == 2

HeapWords == 1..MaxHeapWords

\* the union has its three-word layout only for a two-word HEAP
IS_VALID_SIZE == heap_words = ValidHeapWords

\* What a call gives: the value, or a panic that leaves no value.
Done(v) == [panic |-> FALSE, val |-> v]

Panic == [panic |-> TRUE, val |-> NoValue]

\* FlexStrInner's constructors: they build the value only for a valid size
inner(v) == IF IS_VALID_SIZE THEN Done(v) ELSE Panic

\* from_static without the size check of FlexStrInner
base_from_static_unchecked(s) == Done(from_static(s))

\* FlexStrBase::from_static
base_from_static(s) == inner(from_static(s))

\* FlexStrBase::try_inline: Ok(value) or Err(s); val is NoValue for Err
base_try_inline(s) == inner(try_inline(s).val)

\* FlexStrBase::from_ref
base_from_ref(s) == inner(from_ref(s))

\* FlexStrBase::from_ref_heap
base_from_ref_heap(s) == inner(heap(s))

\* FlexStrBase::from_borrow
base_from_borrow(s) == inner(from_borrow(s))

InitLayout ==
    /\ cap \in Capacities
    /\ kind \in StrKinds
    /\ unix \in BOOLEAN
    /\ backend \in Backends
    /\ heap_words \in HeapWords
    /\ builder = NoBuilder
    /\ op = "none"
    /\ arg = <<>>
    /\ lhs = NoValue
    /\ val = NoValue
    /\ err = <<>>
    /\ failed = FALSE
    /\ allocs = 0
    /\ copied = 0
    /\ other = NoValue
    /\ items = <<>>
    /\ out = NoOut

\* The first creation of a value of the alias: r is what the call gave.
Create(name, s, r) ==
    /\ op = "none"
    /\ op' = name
    /\ arg' = s
    /\ val' = r.val
    /\ failed' = r.panic
    /\ UNCHANGED <<config, lhs, err, allocs, copied, aux>>

LayoutFromStatic == \E s \in Inputs : Create("from_static", s, base_from_static(s))

LayoutTryInline == \E s \in Inputs : Create("try_inline", s, base_try_inline(s))

LayoutFromRef == \E s \in Inputs : Create("from_ref", s, base_from_ref(s))

LayoutFromRefHeap == \E s \in Inputs : Create("from_ref_heap", s, base_from_ref_heap(s))

LayoutFromBorrow == \E s \in Inputs : Create("from_borrow", s, base_from_borrow(s))

NextLayout ==
    \/ LayoutFromStatic
    \/ LayoutTryInline
    \/ LayoutFromRef
    \/ LayoutFromRefHeap
    \/ LayoutFromBorrow

SpecLayout == InitLayout /\ [][NextLayout]_vars

(***************************************************************************)
(* Conversion of raw content to text: try_to_str.                          *)
(***************************************************************************)
\* Longest raw content converted.
MaxRawLen == 4

\* 'A', two continuation bytes, the leads of a 2, 3 and 4 byte sequence, the
\* lead of the surrogates, and a byte that occurs in no encoding.
RawBytes == {65, 128, 160, 195, 224, 237, 240, 255}

RawInputs == UNION {[1..k -> RawBytes] : k \in 0..MaxRawLen}

\* Option<usize>
NoLen == [some |-> FALSE, n |-> 0]

SomeLen(k) == [some |-> TRUE, n |-> k]

\* core::str::Utf8Error and the Result of core::str::from_utf8
StdOk == [ok |-> TRUE, valid_up_to |-> 0, error_len |-> NoLen]

StdErr(i, e) == [ok |-> FALSE, valid_up_to |-> i, error_len |-> e]

\* core::str::utf8_char_width
utf8_char_width(b) ==
    IF b < 128 THEN 1
    ELSE IF b >= 194 /\ b <= 223 THEN 2
    ELSE IF b >= 224 /\ b <= 239 THEN 3
    ELSE IF b >= 240 /\ b <= 244 THEN 4
    ELSE 0

\* a continuation byte, 0x80..0xBF
is_cont(b) == b >= 128 /\ b <= 191

\* the second byte allowed after the lead of a 3 byte sequence
second_of_3(first, b) ==
    \/ first = 224 /\ b >= 160 /\ b <= 191
    \/ first >= 225 /\ first <= 236 /\ is_cont(b)
    \/ first = 237 /\ b >= 128 /\ b <= 159
    \/ first >= 238 /\ first <= 239 /\ is_cont(b)

\* the second byte allowed after the lead of a 4 byte sequence
second_of_4(first, b) ==
    \/ first = 240 /\ b >= 144 /\ b <= 191
    \/ first >= 241 /\ first <= 243 /\ is_cont(b)
    \/ first = 244 /\ b >= 128 /\ b <= 143

\* core::str::from_utf8 (run_utf8_validation), from the byte at i on (0-based)
RECURSIVE run_utf8_validation(_, _)
run_utf8_validation(v, i) ==
    IF i >= Len(v) THEN StdOk
    ELSE
        LET first == v[i + 1]
            w == utf8_char_width(first)
            has(k) == i + k < Len(v)
            at(k) == v[i + k + 1]
            bad(e) == StdErr(i, e)
        IN  IF w = 1 THEN run_utf8_validation(v, i + 1)
            ELSE IF w = 2 THEN
                IF ~has(1) THEN bad(NoLen)
                ELSE IF ~is_cont(at(1)) THEN bad(SomeLen(1))
                ELSE run_utf8_validation(v, i + 2)
            ELSE IF w = 3 THEN
                IF ~has(1) THEN bad(NoLen)
                ELSE IF ~second_of_3(first, at(1)) THEN bad(SomeLen(1))
                ELSE IF ~has(2) THEN bad(NoLen)
                ELSE IF ~is_cont(at(2)) THEN bad(SomeLen(2))
                ELSE run_utf8_validation(v, i + 3)
            ELSE IF w = 4 THEN
                IF ~has(1) THEN bad(NoLen)
                ELSE IF ~second_of_4(first, at(1)) THEN bad(SomeLen(1))
                ELSE IF ~has(2) THEN bad(NoLen)
                ELSE IF ~is_cont(at(2)) THEN bad(SomeLen(2))
                ELSE IF ~has(3) THEN bad(NoLen)
                ELSE IF ~is_cont(at(3)) THEN bad(SomeLen(3))
                ELSE run_utf8_validation(v, i + 4)
            ELSE bad(SomeLen(1))

from_utf8(v) == run_utf8_validation(v, 0)

\* flexstr's Utf8Error
WithData(i, e) == [tag |-> "WithData", valid_up_to |-> i, error_len |-> e]

Unknown == [tag |-> "Unknown", valid_up_to |-> 0, error_len |-> NoLen]

\* Result<&str, Utf8Error>
OkStr(s) == [ok |-> TRUE, str |-> s, err |-> Unknown]

ErrStr(e) == [ok |-> FALSE, str |-> <<>>, err |-> e]

\* try_to_str of [u8] reporting every failure as Unknown
try_to_str_raw_unknown(s) ==
    LET r == from_utf8(s)
    IN  IF r.ok THEN OkStr(s) ELSE ErrStr(Unknown)

\* <[u8] as Str>::try_to_str
try_to_str_raw(s) ==
    LET r == from_utf8(s)
    IN  IF r.ok THEN OkStr(s) ELSE ErrStr(WithData(r.valid_up_to, r.error_len))

\* std's OsStr::to_str: Some(text) when the content is valid Unicode
os_to_str(s) == IF from_utf8(s).ok THEN Some(s) ELSE None

\* <OsStr as Str>::try_to_str
try_to_str_os(s) ==
    LET r == os_to_str(s)
    IN  IF r.some THEN OkStr(r.ref) ELSE ErrStr(Unknown)

try_to_str(s) ==
    CASE kind = "RawStr" -> try_to_str_raw(s)
      [] kind = "OsStr" -> try_to_str_os(s)

\* The raw content of a value of a kind that has try_to_str.
InitUtf8 ==
    /\ cap = MaxCap
    /\ kind \in {"RawStr", "OsStr"}
    /\ unix = TRUE
    /\ backend = "Rc"
    /\ heap_words = ValidHeapWords
    /\ builder = NoBuilder
    /\ op = "none"
    /\ arg \in RawInputs
    /\ lhs = NoValue
    /\ val = NoValue
    /\ err = <<>>
    /\ failed = FALSE
    /\ allocs = 0
    /\ copied = 0
    /\ other = NoValue
    /\ items = <<>>
    /\ out = OkStr(<<>>)

TryToStr ==
    /\ op = "none"
    /\ op' = "try_to_str"
    /\ out' = try_to_str(arg)
    /\ UNCHANGED <<config, arg, lhs, val, err, failed, allocs, copied, other,
                   items, heap_words,
                   builder>>

NextUtf8 == TryToStr

SpecUtf8 == InitUtf8 /\ [][NextUtf8]_vars

(***************************************************************************)
(* Collecting iterators, and formatting.                                   *)
(***************************************************************************)
\* Most items an iterator yields.
MaxItems == 3

\* chars: two of one byte and one of two bytes ('\u{e9}')
Chars == {1, 2, 233}

\* char::encode_utf8, for chars below U+0800
encode_utf8(c) ==
    IF c < 128 THEN <<c>> ELSE <<192 + (c \div 64), 128 + (c % 64)>>

\* The strings an iterator yields: short strings and the one-char strings.
Pieces == {<<>>, <<1, 2>>} \cup {encode_utf8(c) : c \in Chars}

ItemSeqs == UNION {[1..n -> Pieces] : n \in 0..MaxItems}

\* for s in iter { builder.write_str(s) }
RECURSIVE write_all(_, _)
write_all(b, ss) ==
    IF ss = <<>> THEN b ELSE write_all(write_str(b, Head(ss)), Tail(ss))

\* <FlexStrBuilder as Write>::write_char
write_char(b, c) == write_str(b, encode_utf8(c))

\* for ch in iter { builder.write_char(f(ch)) }
RECURSIVE write_chars(_, _)
write_chars(b, cs) ==
    IF cs = <<>> THEN b ELSE write_chars(write_char(b, Head(cs)), Tail(cs))

\* the items of ss in reverse order
RECURSIVE Reverse(_)
Reverse(ss) == IF ss = <<>> THEN <<>> ELSE Reverse(Tail(ss)) \o <<Head(ss)>>

\* from_iter_str that writes the last item first
from_iter_str_reversed(ss) == builder_into(write_all(builder_new, Reverse(ss)))

\* from_iter_str
from_iter_str(ss) == builder_into(write_all(builder_new, ss))

\* from_iter_char, with lower the lower bound of the iterator's size_hint
from_iter_char(cs, lower) == builder_into(write_chars(with_capacity(lower), cs))

\* <FlexStr as FromIterator<FlexStr<T2>>>::from_iter: the items as_ref()
from_iter_flex(vs) == from_iter_str([i \in DOMAIN vs |-> as_str(vs[i])])

\* flex_fmt: write_fmt writes the pieces of the formatted text in order
flex_fmt(pieces) == builder_into(write_all(builder_new, pieces))

\* The char whose encoding is the one-char string s.
char_of(s) == CHOOSE c \in Chars : encode_utf8(c) = s

IsChar(s) == \E c \in Chars : encode_utf8(c) = s

InitCollect ==
    /\ cap \in Capacities
    /\ kind = "Str"
    /\ unix = TRUE
    /\ backend \in Backends
    /\ heap_words = ValidHeapWords
    /\ builder = NoBuilder
    /\ op = "none"
    /\ arg = <<>>
    /\ lhs = NoValue
    /\ val = NoValue
    /\ err = <<>>
    /\ failed = FALSE
    /\ allocs = 0
    /\ copied = 0
    /\ other = NoValue
    /\ items \in ItemSeqs
    /\ out = NoOut

\* The value v collected from items; how records what the items were.
Collected(name, how, v) ==
    /\ op = "none"
    /\ op' = name
    /\ val' = v
    /\ out' = [tag |-> how]
    /\ UNCHANGED <<config, arg, lhs, err, failed, allocs, copied, other, items,
                   heap_words, builder>>

\* iter.collect() over &str or String
CollectStrs == Collected("collect_str", "str", from_iter_str(items))

\* iter.collect() over values, all of variant c and of any backend
CollectValues ==
    \E c \in {"Static", "Inlined", "Heap"}, b2 \in Backends :
        /\ c = "Inlined" => \A i \in DOMAIN items : Len(items[i]) <= cap
        /\ Collected("collect_flex", c,
                     from_iter_flex([i \in DOMAIN items |-> Make(c, b2, items[i])]))

\* iter.collect() over chars
CollectChars ==
    /\ \A i \in DOMAIN items : IsChar(items[i])
    /\ \E lower \in 0..Len(items) :
        Collected("collect_char", "char",
                  from_iter_char([i \in DOMAIN items |-> char_of(items[i])], lower))

\* flex_fmt!(..)
FlexFmt == Collected("flex_fmt", "fmt", flex_fmt(items))

NextCollect ==
    \/ CollectStrs
    \/ CollectValues
    \/ CollectChars
    \/ FlexFmt

SpecCollect == InitCollect /\ [][NextCollect]_vars

(***************************************************************************)
(* The builder as a state machine: writes, the hand-over of an owned       *)
(* string, and the conversion into a value.                                *)
(***************************************************************************)
\* The bytes a builder has accumulated.
content(b) == IF b.state = "Small" THEN SubSeq(b.data, 1, b.len) ELSE b.str

\* The order of the builder's states.
rank(state) ==
    CASE state = "Small" -> 1
      [] state = "Regular" -> 2
      [] state = "Large" -> 3

\* A Regular builder given an owned string: it becomes Large; the bytes it
\* holds move into the owned value and those of s are not copied again.
hand_over(b, s) ==
    [state |-> "Large", data |-> <<>>, len |-> 0, str |-> b.str \o s,
     allocs |-> b.allocs, copied |-> b.copied + Len(b.str)]

\* The fmt::Result of a write: Ok when all of s was taken
write_str_result(b, s) ==
    IF content(write_str(b, s)) = content(b) \o s THEN "Ok" ELSE "Err"

\* The strings written to the builder.
Writes == Strs(2)

\* A builder from new(), or from with_capacity(n) for an n over the capacity.
InitBuilder ==
    /\ cap \in Capacities
    /\ kind = "Str"
    /\ unix = TRUE
    /\ backend \in Backends
    /\ heap_words = ValidHeapWords
    /\ op = "none"
    /\ arg = <<>>
    /\ lhs = NoValue
    /\ val = NoValue
    /\ err = <<>>
    /\ failed = FALSE
    /\ allocs = 0
    /\ copied = 0
    /\ other = NoValue
    /\ items = <<>>
    /\ out = NoOut
    /\ builder \in {builder_new, with_capacity(cap + 1)}

\* The builder can take one more item of n bytes: it has not been consumed.
Open(n) ==
    /\ op # "finalize"
    /\ Len(items) < MaxItems
    /\ Len(content(builder)) + n <= MaxLen

\* a write into a fixed buffer: Err, and nothing written, when s does not fit
BuilderWrite_bounded ==
    \E s \in Writes :
        LET fits == builder.state # "Small" \/ builder.len + Len(s) <= cap
        IN  /\ Open(Len(s))
            /\ op' = "write"
            /\ arg' = s
            /\ builder' = IF fits THEN write_str(builder, s) ELSE builder
            /\ failed' = ~fits
            /\ items' = IF fits THEN Append(items, s) ELSE items
            /\ UNCHANGED <<config, lhs, val, err, allocs, copied, other, out,
                           heap_words>>

\* builder.write_str(s)
BuilderWrite ==
    \E s \in Writes :
        /\ Open(Len(s))
        /\ op' = "write"
        /\ arg' = s
        /\ builder' = write_str(builder, s)
        /\ failed' = (write_str_result(builder, s) = "Err")
        /\ items' = Append(items, s)
        /\ UNCHANGED <<config, lhs, val, err, allocs, copied, other, out,
                       heap_words>>

\* An owned string handed to a Regular builder.
BuilderHandOver ==
    \E s \in Writes :
        /\ Open(Len(s))
        /\ builder.state = "Regular"
        /\ op' = "hand_over"
        /\ arg' = s
        /\ builder' = hand_over(builder, s)
        /\ failed' = FALSE
        /\ items' = Append(items, s)
        /\ UNCHANGED <<config, lhs, val, err, allocs, copied, other, out,
                       heap_words>>

\* a conversion that borrows the builder, which stays usable
BuilderFinalize_borrowing ==
    /\ op # "finalize"
    /\ op' = "peek"
    /\ val' = builder_into(builder)
    /\ UNCHANGED <<config, arg, lhs, err, failed, allocs, copied, other, items,
                   out, heap_words, builder>>

\* builder.into(): From<FlexStrBuilder> takes the builder by value
BuilderFinalize ==
    /\ op # "finalize"
    /\ op' = "finalize"
    /\ val' = builder_into(builder)
    /\ UNCHANGED <<config, arg, lhs, err, failed, allocs, copied, other, items,
                   out, heap_words, builder>>

NextBuilder ==
    \/ BuilderWrite
    \/ BuilderHandOver
    \/ BuilderFinalize

SpecBuilder == InitBuilder /\ [][NextBuilder]_vars

(***************************************************************************)
(* A builder of the 64-bit aliases, fed one byte at a time.                *)
(***************************************************************************)
\* Inline capacity of the three-word aliases on a 64-bit target.
InlineCap == 22

\* Most bytes fed to the builder.
MaxFeed == 24

InitFeed ==
    /\ cap = InlineCap
    /\ kind = "Str"
    /\ unix = TRUE
    /\ backend \in Backends
    /\ heap_words = ValidHeapWords
    /\ op = "none"
    /\ \E b \in Bytes : arg = <<b>>
    /\ lhs = NoValue
    /\ val = NoValue
    /\ err = <<>>
    /\ failed = FALSE
    /\ allocs = 0
    /\ copied = 0
    /\ other = NoValue
    /\ items = <<>>
    /\ out = NoOut
    /\ builder = builder_new

\* builder.write_str of the one byte in arg
FeedByte ==
    /\ op # "finalize"
    /\ Len(items) < MaxFeed
    /\ op' = "write"
    /\ builder' = write_str(builder, arg)
    /\ items' = Append(items, arg)
    /\ UNCHANGED <<config, arg, lhs, val, err, failed, allocs, copied, other,
                   out, heap_words>>

\* builder.into()
FeedFinalize ==
    /\ op # "finalize"
    /\ op' = "finalize"
    /\ val' = builder_into(builder)
    /\ UNCHANGED <<config, arg, lhs, err, failed, allocs, copied, other, items,
                   out, heap_words, builder>>

NextFeed ==
    \/ FeedByte
    \/ FeedFinalize

SpecFeed == InitFeed /\ [][NextFeed]_vars

(***************************************************************************)
(* The inline buffer grown in place, as + does for an Inlined operand.     *)
(***************************************************************************)
\* An Inlined value that + is about to grow; lhs keeps what it was.
InitInline ==
    /\ cap \in Capacities
    /\ kind = "Str"
    /\ unix = TRUE
    /\ backend = "Rc"
    /\ heap_words = ValidHeapWords
    /\ op = "none"
    /\ arg = <<>>
    /\ \E s \in Inputs :
        /\ Len(s) <= cap
        /\ val = try_inline(s).val
        /\ lhs = try_inline(s).val
    /\ err = <<>>
    /\ failed = FALSE
    /\ allocs = 0
    /\ copied = 0
    /\ other = NoValue
    /\ items = <<>>
    /\ out = NoOut
    /\ builder = NoBuilder

\* a try_concat that writes what fits before it returns false
InlineTryConcat_partial ==
    \E s \in Writes :
        LET r == try_concat(val.inl, s)
            room == cap - val.inl.len
            part == try_concat(val.inl, SubSeq(s, 1, room))
        IN  /\ op' = "try_concat"
            /\ arg' = s
            /\ lhs' = val
            /\ val' = IF r.ok THEN Inlined(r.inl) ELSE Inlined(part.inl)
            /\ failed' = ~r.ok
            /\ UNCHANGED <<config, err, allocs, copied, aux>>

\* s.try_concat(rhs) on the buffer of an Inlined value
InlineTryConcat ==
    \E s \in Writes :
        LET r == try_concat(val.inl, s)
        IN  /\ op' = "try_concat"
            /\ arg' = s
            /\ lhs' = val
            /\ val' = Inlined(r.inl)
            /\ failed' = ~r.ok
            /\ UNCHANGED <<config, err, allocs, copied, aux>>

NextInline == InlineTryConcat

SpecInline == InitInline /\ [][NextInline]_vars

(***************************************************************************)
(* What the callers of the builder do with the result of a write.          *)
(***************************************************************************)
\* A format argument whose formatting trait implementation returns an error.
FmtError == <<-1>>

FmtArgs == Pieces \cup {FmtError}

ArgSeqs == UNION {[1..n -> FmtArgs] : n \in 0..MaxItems}

\* <FlexStrBuilder as Write>::write_fmt: the pieces are written in order and
\* the first error stops the writing
RECURSIVE write_fmt(_, _)
write_fmt(b, args) ==
    IF args = <<>> THEN [ok |-> TRUE, b |-> b]
    ELSE IF Head(args) = FmtError THEN [ok |-> FALSE, b |-> b]
    ELSE write_fmt(write_str(b, Head(args)), Tail(args))

\* Result::expect: it goes on with Ok and panics with Err
expect(ok) == IF ok THEN {"continue"} ELSE {"panic"}

\* Result::unwrap_unchecked: undefined behaviour with Err, where the build
\* may go on as if the write had succeeded or may stop
unwrap_unchecked(ok) == IF ok THEN {"continue"} ELSE {"continue", "panic"}

\* What a caller gives: the value of the builder when it goes on.
Outcomes(how, b) == {IF o = "panic" THEN Panic ELSE Done(builder_into(b)) : o \in how}

\* flex_fmt that takes the result of write_fmt without checking it
flex_fmt_outcomes_unchecked(args) ==
    LET r == write_fmt(builder_new, args)
    IN  Outcomes(unwrap_unchecked(r.ok), r.b)

\* flex_fmt
flex_fmt_outcomes(args) ==
    LET r == write_fmt(builder_new, args)
    IN  Outcomes(expect(r.ok), r.b)

\* concat
concat_outcomes(s1, s2) ==
    LET b0 == with_capacity(Len(s1) + Len(s2))
        b1 == write_str(b0, s1)
        ok == write_str_result(b0, s1) = "Ok" /\ write_str_result(b1, s2) = "Ok"
    IN  Outcomes(unwrap_unchecked(ok), write_str(b1, s2))

\* Whether every write of ss to b returns Ok.
RECURSIVE all_ok(_, _)
all_ok(b, ss) ==
    \/ ss = <<>>
    \/ /\ write_str_result(b, Head(ss)) = "Ok"
       /\ all_ok(write_str(b, Head(ss)), Tail(ss))

\* from_iter_str
from_iter_str_outcomes(ss) ==
    Outcomes(unwrap_unchecked(all_ok(builder_new, ss)), write_all(builder_new, ss))

InitFmt ==
    /\ cap \in Capacities
    /\ kind = "Str"
    /\ unix = TRUE
    /\ backend \in Backends
    /\ heap_words = ValidHeapWords
    /\ op = "none"
    /\ arg = <<>>
    /\ lhs = NoValue
    /\ val = NoValue
    /\ err = <<>>
    /\ failed = FALSE
    /\ allocs = 0
    /\ copied = 0
    /\ other = NoValue
    /\ items \in ArgSeqs
    /\ out = NoOut
    /\ builder = NoBuilder

\* The caller name ran: ok tells whether its writes returned Ok, and r is
\* what it gave, a value or a panic (failed).
Called(name, ok, r) ==
    /\ op = "none"
    /\ op' = name
    /\ out' = [tag |-> IF ok THEN "Ok" ELSE "Err"]
    /\ val' = r.val
    /\ failed' = r.panic
    /\ UNCHANGED <<config, arg, lhs, err, allocs, copied, other, items,
                   heap_words, builder>>

\* flex_fmt!(..) with the arguments in items
FmtFormat ==
    \E r \in flex_fmt_outcomes(items) :
        Called("flex_fmt", write_fmt(builder_new, items).ok, r)

\* concat(s1, s2) of two strings
FmtConcat ==
    /\ Len(items) = 2
    /\ \A i \in DOMAIN items : items[i] # FmtError
    /\ \E r \in concat_outcomes(items[1], items[2]) :
        Called("concat", all_ok(with_capacity(Len(items[1]) + Len(items[2])), items), r)

\* iter.collect() over strings
FmtCollect ==
    /\ \A i \in DOMAIN items : items[i] # FmtError
    /\ \E r \in from_iter_str_outcomes(items) :
        Called("collect_str", all_ok(builder_new, items), r)

NextFmt ==
    \/ FmtFormat
    \/ FmtConcat
    \/ FmtCollect

SpecFmt == InitFmt /\ [][NextFmt]_vars

(***************************************************************************)
(* Properties.                                                             *)
(***************************************************************************)
View(v) == as_str_type(v)

Count(b) == IF b THEN 1 ELSE 0

\* C1: from_static(s) of any length is Static, neither Inlined nor Heap, views
\* as s, and wraps the reference: nothing is copied inline or to the heap.
C1_FromStaticWraps ==
    op = "from_static" =>
        /\ is_static(val) /\ ~is_inlined(val) /\ ~is_heap(val)
        /\ View(val) = arg
        /\ val.ref = arg /\ val.inl = NoInline /\ val.heap = NoHeap
        /\ allocs = 0 /\ copied = 0

C1_Witness == op = "from_static" /\ Len(arg) > cap /\ is_static(val)

\* C2: from_ref picks the variant from the length alone: 0 gives Static,
\* 1..C gives Inlined, above C gives Heap.
C2_FromRefByLength ==
    op = "from_ref" =>
        /\ Len(arg) = 0 => is_static(val)
        /\ (Len(arg) > 0 /\ Len(arg) <= cap) => is_inlined(val)
        /\ Len(arg) > cap => is_heap(val)

\* C3: for every kind, backend and capacity, from_ref of an empty input is
\* Static, never Inlined or Heap.
C3_EmptyFromRefIsStatic ==
    (op = "from_ref" /\ arg = <<>>) =>
        is_static(val) /\ ~is_inlined(val) /\ ~is_heap(val)

C5_TryInlineTooLong ==
    (op = "try_inline" /\ Len(arg) > cap) =>
        /\ failed /\ err = arg
        /\ val = NoValue
        /\ allocs = 0 /\ copied = 0

C5_Witness == op = "try_inline" /\ Len(arg) = cap + 1 /\ failed /\ err = arg

C7_ExactlyOneVariant ==
    (op # "none" /\ ~failed) =>
        Count(is_static(val)) + Count(is_inlined(val))
            + Count(is_heap(val)) + Count(is_borrow(val)) = 1

C7_Witness == op = "add" /\ is_inlined(val) /\ ~is_heap(val)

\* C8 as stated: a + b is Inlined when a is Inlined and len(a) + len(b) <= C,
\* and Heap in every other case.
C8_InlinedOnlyFromInlined ==
    op = "add" =>
        IF is_inlined(lhs) /\ Len(View(lhs)) + Len(arg) <= cap
        THEN is_inlined(val)
        ELSE is_heap(val)

\* C8 amended: a + b is Inlined when len(a) + len(b) <= C, whatever the
\* variant of a, and Heap when the combined length exceeds C.
C8_InlinedByCombinedLength ==
    op = "add" =>
        IF Len(View(lhs)) + Len(arg) <= cap
        THEN is_inlined(val) /\ ~is_heap(val)
        ELSE is_heap(val) /\ ~is_inlined(val)

C8_Witness ==
    op = "add" /\ is_static(lhs) /\ Len(View(lhs)) + Len(arg) <= cap
        /\ is_inlined(val)

\* C9: for a left operand that is a wrapped literal or came from an owned
\* String, and len(a) + len(b) <= C, a + b is Inlined and equals the
\* concatenation.
C9_ShortConcatInlined ==
    (/\ op = "add"
     /\ is_static(lhs) \/ lhs = from_string(View(lhs))
     /\ Len(View(lhs)) + Len(arg) <= cap) =>
        is_inlined(val) /\ View(val) = View(lhs) \o arg

C9_Witness ==
    /\ op = "add" /\ is_static(lhs)
    /\ Len(View(lhs)) > 0 /\ Len(arg) > 0
    /\ is_inlined(val) /\ View(val) = View(lhs) \o arg

\* C10: for every left operand and every right operand the view of a + b is
\* the view of a followed by b.
C10_ConcatView == op = "add" => View(val) = View(lhs) \o arg

C10_Witness ==
    /\ op = "add" /\ is_heap(val)
    /\ Len(View(lhs)) > 0 /\ Len(arg) > 0
    /\ View(lhs) # arg
    /\ View(val) = View(lhs) \o arg

\* C11 as stated: a + b copies each byte of the operands at most once in
\* total, also when the result is Heap.
C11_CopiedAtMostOnce ==
    op = "add" => copied <= Len(View(lhs)) + Len(arg)

\* C11 amended: a + b copies each byte at most once when the result is
\* Inlined, and at most twice when it is Heap: once into the builder's buffer
\* and once more into the backend's heap storage.
C11_CopiedOnceInlineTwiceHeap ==
    op = "add" =>
        /\ is_inlined(val) => copied <= Len(View(lhs)) + Len(arg)
        /\ is_heap(val) => copied <= 2 * (Len(View(lhs)) + Len(arg))
        /\ is_inlined(val) \/ is_heap(val)

C11_Witness ==
    /\ op = "add" /\ is_heap(val) /\ Len(View(lhs)) > 0 /\ Len(arg) > 0
    /\ copied = 2 * (Len(View(lhs)) + Len(arg))

\* C12: clone(x) views as x does and has the variant of x, and x is what it
\* was.
C12_ClonePreserves ==
    op = "clone" =>
        /\ View(val) = View(lhs)
        /\ val.tag = lhs.tag
        /\ val = lhs

C12_Witness ==
    op = "clone" /\ is_static(lhs) /\ Len(View(lhs)) > 0 /\ is_static(val)

\* C15: from_ref_heap(s) (heap(s)) is Heap and views as s for every s, also
\* the empty one and those that would fit inline; no inline buffer is tried.
C15_HeapForced ==
    op = "from_ref_heap" =>
        /\ is_heap(val) /\ ~is_inlined(val) /\ ~is_static(val)
        /\ View(val) = arg
        /\ val.inl = NoInline
        /\ allocs = 1

C15_Witness ==
    op = "from_ref_heap" /\ Len(arg) > 0 /\ Len(arg) <= cap /\ is_heap(val)

\* C18: an owned String becomes Inlined iff its length is <= C and Heap
\* otherwise, with a view equal to it; never Static, so the empty String is
\* an Inlined value of length 0.
C18_FromStringVariant ==
    op = "from_string" =>
        /\ is_inlined(val) <=> Len(arg) <= cap
        /\ is_heap(val) <=> Len(arg) > cap
        /\ ~is_static(val)
        /\ View(val) = arg
        /\ arg = <<>> => (is_inlined(val) /\ val.inl.len = 0)

C18_Witness ==
    op = "from_string" /\ arg = <<>> /\ is_inlined(val) /\ val.inl.len = 0

\* C20: from_borrow(s) is Borrowed (not Static, Inlined or Heap), views as s
\* and copies nothing, whatever the length of s.
C20_FromBorrowWraps ==
    op = "from_borrow" =>
        /\ is_borrow(val) /\ ~is_static(val) /\ ~is_inlined(val) /\ ~is_heap(val)
        /\ View(val) = arg
        /\ val.ref = arg /\ val.inl = NoInline /\ val.heap = NoHeap
        /\ allocs = 0 /\ copied = 0

C20_Witness ==
    op = "from_borrow" /\ is_borrow(val) /\ Len(arg) > cap /\ View(val) = arg

\* A bytewise lexicographic order, stated without str_cmp.
LexLess(a, b) ==
    \/ Len(a) < Len(b) /\ \A i \in 1..Len(a) : a[i] = b[i]
    \/ \E i \in 1..Len(a) :
        /\ i <= Len(b)
        /\ a[i] < b[i]
        /\ \A j \in 1..(i - 1) : a[j] = b[j]

ReadOps == {"eq", "cmp", "hash", "deref", "len", "is_empty", "is_static",
            "is_inlined", "is_heap", "is_borrow", "index", "clone"}

\* C13: x == y iff the views are equal, cmp(x, y) is the comparison of the
\* views, and equal views hash equally, whatever the variants and backends.
C13_CompareByView ==
    /\ op = "eq" => (out.flag <=> View(val) = View(other))
    /\ op = "eq" => (out.flag <=> items[1] = items[2])
    /\ op = "cmp" =>
        /\ out.word = "Less" <=> LexLess(View(val), View(other))
        /\ out.word = "Greater" <=> LexLess(View(other), View(val))
        /\ out.word = "Equal" <=> items[1] = items[2]
    /\ op = "hash" => (View(val) = View(other) => out.flag)

C13_Witness ==
    /\ op = "eq" /\ out.flag
    /\ is_static(val) /\ is_heap(other) /\ other.heap.backend # backend
    /\ Len(View(val)) > 0

\* C14: no read-only operation (view, predicates, len, is_empty, clone,
\* equality, ordering, hash, indexing) changes the variant of the value or a
\* byte of its view.
C14_ReadsLeaveValue ==
    [][op' \in ReadOps => (val'.tag = val.tag /\ View(val') = View(val))]_vars

C14_Witness ==
    op = "clone" /\ is_inlined(val) /\ View(val) = items[1] /\ Len(items[1]) > 0

\* C16: when the backend handle is not two machine words, the first call of
\* any constructor panics and leaves no value; with two words none panics.
C16_BadFootprintPanics ==
    op # "none" =>
        /\ heap_words # ValidHeapWords => failed /\ val = NoValue
        /\ heap_words = ValidHeapWords => ~failed
        /\ val # NoValue => heap_words = ValidHeapWords

C16_Witness ==
    op = "from_static" /\ heap_words > ValidHeapWords /\ failed /\ val = NoValue
    /\ Len(arg) > 0

\* The encodings of one scalar value, over RawBytes.
Scalars ==
    {s \in UNION {[1..k -> RawBytes] : k \in 1..4} :
        \/ Len(s) = 1 /\ s[1] < 128
        \/ Len(s) = 2 /\ s[1] \in 194..223 /\ s[2] \in 128..191
        \/ /\ Len(s) = 3 /\ s[1] \in 224..239 /\ s[2] \in 128..191 /\ s[3] \in 128..191
           /\ s[1] = 224 => s[2] >= 160
           /\ s[1] = 237 => s[2] <= 159
        \/ /\ Len(s) = 4 /\ s[1] \in 240..244
           /\ s[2] \in 128..191 /\ s[3] \in 128..191 /\ s[4] \in 128..191
           /\ s[1] = 240 => s[2] >= 144
           /\ s[1] = 244 => s[2] <= 143}

\* Valid text: a sequence of encodings of scalar values.
RECURSIVE WellFormed(_)
WellFormed(s) ==
    \/ s = <<>>
    \/ \E k \in 1..Len(s) :
        /\ k <= 4
        /\ SubSeq(s, 1, k) \in Scalars
        /\ WellFormed(SubSeq(s, k + 1, Len(s)))

\* The length of the longest prefix of s that is valid text.
ValidPrefix(s) ==
    CHOOSE n \in 0..Len(s) :
        /\ WellFormed(SubSeq(s, 1, n))
        /\ \A m \in (n + 1)..Len(s) : ~WellFormed(SubSeq(s, 1, m))

\* C17 as stated: try_to_str succeeds iff the bytes are valid text, and for
\* every kind the error carries valid_up_to and error_len.
C17_ErrorCarriesData ==
    op = "try_to_str" =>
        /\ out.ok <=> WellFormed(arg)
        /\ ~out.ok =>
            /\ out.err.tag = "WithData"
            /\ out.err.valid_up_to = ValidPrefix(arg)

\* C17: try_to_str succeeds, giving the same bytes, iff they are valid text;
\* the error of raw bytes carries the length of the longest valid prefix and,
\* when the invalid span is known, its length (1 to 3, inside the content);
\* the error of an OS string is Unknown and carries neither.
C17_RawErrorCarriesData ==
    op = "try_to_str" =>
        /\ out.ok <=> WellFormed(arg)
        /\ out.ok => out.str = arg
        /\ (~out.ok /\ kind = "RawStr") =>
            /\ out.err.tag = "WithData"
            /\ out.err.valid_up_to = ValidPrefix(arg)
            /\ out.err.valid_up_to < Len(arg)
            /\ out.err.error_len.some =>
                /\ out.err.error_len.n \in 1..3
                /\ out.err.valid_up_to + out.err.error_len.n <= Len(arg)
            /\ ~out.err.error_len.some =>
                \E s \in Scalars : \E k \in 1..(Len(s) - 1) :
                    SubSeq(arg, out.err.valid_up_to + 1, Len(arg)) = SubSeq(s, 1, k)
        /\ (~out.ok /\ kind = "OsStr") => out.err = Unknown

C17_Witness ==
    /\ op = "try_to_str" /\ kind = "RawStr" /\ ~out.ok
    /\ out.err.valid_up_to = 1 /\ out.err.error_len = SomeLen(2)

\* The items of ss one after the other.
RECURSIVE Flatten(_)
Flatten(ss) == IF ss = <<>> THEN <<>> ELSE Head(ss) \o Flatten(Tail(ss))

CollectOps == {"collect_str", "collect_flex", "collect_char", "flex_fmt"}

\* C19: collecting strings, values or chars, and flex_fmt, give a value whose
\* view is the items in order, Inlined whenever that is at most cap bytes.
C19_CollectInOrder ==
    op \in CollectOps =>
        /\ View(val) = Flatten(items)
        /\ Len(Flatten(items)) <= cap => is_inlined(val)

C19_Witness ==
    /\ op = "collect_char" /\ Len(items) = 2 /\ items[1] # items[2]
    /\ Len(Flatten(items)) = cap /\ is_inlined(val)

\* C21: whatever is written to a fresh builder, through Small, Regular and
\* Large, the value it is converted into views the writes in order, the same
\* bytes as the value from_ref builds from the whole string.
C21_BuilderMatchesFromRef ==
    op = "finalize" =>
        /\ View(val) = Flatten(items)
        /\ View(val) = View(from_ref(Flatten(items)))

C21_Witness ==
    /\ op = "finalize" /\ builder.state = "Large" /\ Len(items) = 3
    /\ Len(items[1]) > 0 /\ Len(items[2]) > 0 /\ Len(items[3]) > 0
    /\ View(val) = Flatten(items)

\* C22: a write of data to a Small builder holding n bytes keeps it Small and
\* appends in place iff n + len(data) <= cap (exactly filling it included);
\* otherwise the builder becomes Regular, holding the n bytes, copied once
\* into one new buffer, followed by data.
C22_SmallWrite ==
    [][(op' = "write" /\ builder.state = "Small") =>
        /\ builder'.state = "Small" <=> builder.len + Len(arg') <= cap
        /\ builder'.state \in {"Small", "Regular"}
        /\ content(builder') = content(builder) \o arg'
        /\ builder'.state = "Small" =>
            /\ builder'.len = builder.len + Len(arg')
            /\ builder'.allocs = builder.allocs
            /\ builder'.copied = builder.copied + Len(arg')
        /\ builder'.state = "Regular" =>
            /\ builder'.allocs = builder.allocs + 1
            /\ builder'.copied = builder.copied + builder.len + Len(arg')]_vars

C22_Witness ==
    /\ op = "write" /\ builder.state = "Small" /\ builder.len = cap
    /\ Len(arg) = 2 /\ Len(items) = 2 /\ content(builder) = Flatten(items)

\* C23 as stated: with capacity 22 the builder is Small up to byte 21 and
\* the write of byte 22 promotes it.
C23_PromotesAtByte22 ==
    op = "write" => (builder.state = "Small" <=> Len(items) < InlineCap)

\* C23: with capacity 22 the builder is Small up to and including byte 22,
\* which exactly fills it; the write of byte 23 promotes it to Regular, which
\* then holds all the bytes fed.
C23_PromotesAtByte23 ==
    op = "write" =>
        /\ builder.state = "Small" <=> Len(items) <= InlineCap
        /\ builder.state = "Regular" <=> Len(items) > InlineCap
        /\ content(builder) = Flatten(items)
        /\ Len(content(builder)) = Len(items)

C23_Witness ==
    /\ op = "write" /\ Len(items) = InlineCap + 1 /\ builder.state = "Regular"
    /\ Len(builder.str) = InlineCap + 1 /\ builder.allocs = 1

\* C24: the builder only moves forward, Small then Regular then Large; once
\* it has been converted into a value no operation takes it again.
C24_ForwardOnly ==
    [][/\ val = NoValue
       /\ op # "finalize"
       /\ rank(builder'.state) >= rank(builder.state)]_vars

C24_Witness ==
    /\ op = "finalize" /\ builder.state = "Large" /\ Len(items) = 3
    /\ Len(items[1]) > cap

\* C25 as stated: the value is Inlined iff the builder is Small and Heap iff
\* it is Regular or Large, whatever the length of its content.
C25_HeapByState ==
    op = "finalize" =>
        /\ is_inlined(val) <=> builder.state = "Small"
        /\ is_heap(val) <=> builder.state \in {"Regular", "Large"}

\* C25: a Small builder gives an Inlined value; a Regular or Large builder
\* gives a Heap value iff its content is longer than cap; a Large builder
\* holding at most cap bytes gives an Inlined value, and a Regular one a
\* value that is not Heap.
C25_HeapByLength ==
    op = "finalize" =>
        /\ builder.state = "Small" => is_inlined(val)
        /\ is_heap(val) <=>
            (builder.state \in {"Regular", "Large"} /\ Len(content(builder)) > cap)
        /\ (builder.state = "Large" /\ Len(content(builder)) <= cap) => is_inlined(val)
        /\ View(val) = content(builder)

C25_Witness ==
    /\ op = "finalize" /\ builder.state = "Large" /\ Len(content(builder)) = cap
    /\ is_inlined(val)

\* C26: a write to the builder returns Ok in every state and for every
\* input, the promoting write included, and all of its bytes are taken.
C26_WriteSucceeds ==
    op = "write" =>
        /\ ~failed
        /\ Len(items) > 0
        /\ items[Len(items)] = arg
        /\ content(builder) = Flatten(items)

C26_Witness ==
    /\ op = "write" /\ ~failed /\ builder.state = "Regular" /\ Len(items) = 2
    /\ Len(items[1]) = cap /\ Len(items[2]) > 0
    /\ builder.copied = 2 * cap + Len(items[2])

\* C29: every inline buffer, in a Small builder grown by try_concat or in the
\* value a builder is converted into, has a length of at most cap that the
\* one-byte length field holds, an array of cap bytes, and the payload in
\* its first length bytes.
C29_InlineBufferBound ==
    /\ builder.state = "Small" =>
        /\ builder.len <= cap
        /\ builder.len % 256 = builder.len
        /\ Len(builder.data) = cap
        /\ SubSeq(builder.data, 1, builder.len) = Flatten(items)
    /\ is_inlined(val) =>
        /\ val.inl.len <= cap
        /\ val.inl.len < 256
        /\ Len(val.inl.data) = cap
        /\ as_slice(val.inl) = Flatten(items)
        /\ builder.state = "Small" => val.inl.len = builder.len

C29_Witness ==
    /\ op = "finalize" /\ builder.state = "Small" /\ Len(items) = 2
    /\ Len(items[1]) > 0 /\ Len(items[2]) > 0 /\ builder.len < cap
    /\ is_inlined(val) /\ val.inl.len = builder.len

\* C30: an owned string handed to a Regular builder makes it Large without
\* copying the bytes of the string; what was written before is kept in
\* front of it, later writes are appended, and the value the builder is
\* converted into holds all of it in order.
C30_HandOver ==
    [][/\ op' = "hand_over" =>
            /\ builder.state = "Regular"
            /\ builder'.state = "Large"
            /\ content(builder') = content(builder) \o arg'
            /\ builder'.allocs = builder.allocs
            /\ builder'.copied <= builder.copied + Len(content(builder))
       /\ (op' = "write" /\ builder.state = "Large") =>
            /\ builder'.state = "Large"
            /\ content(builder') = content(builder) \o arg'
       /\ (op' = "finalize" /\ builder.state = "Large") =>
            View(val') = Flatten(items)]_vars

C30_Witness ==
    /\ op = "write" /\ builder.state = "Large" /\ Len(items) = 3
    /\ Len(items[1]) > 0 /\ Len(items[2]) > 0 /\ Len(arg) > 0
    /\ content(builder) = Flatten(items)

\* C28: try_concat succeeds iff the two lengths sum to at most cap; then the
\* buffer holds the old content followed by other and its length has grown
\* by other's; otherwise it returns false and the buffer, length and bytes,
\* is what it was before the call.
C28_TryConcatAllOrNothing ==
    op = "try_concat" =>
        /\ ~failed <=> lhs.inl.len + Len(arg) <= cap
        /\ ~failed =>
            /\ as_slice(val.inl) = as_slice(lhs.inl) \o arg
            /\ val.inl.len = lhs.inl.len + Len(arg)
        /\ failed => val.inl = lhs.inl
        /\ val.inl.len <= cap
        /\ Len(val.inl.data) = cap

C28_Witness ==
    /\ op = "try_concat" /\ failed /\ Len(arg) = 2 /\ lhs.inl.len = cap - 1
    /\ lhs.inl.len > 0 /\ val.inl = lhs.inl

====
